---- MODULE Spec2Model ----
(***************************************************************************)
(* Coupled-perturbed Hartree-Fock response solver (helper_CPHF.py) and the *)
(* first-hyperpolarizability assembler (beta.py) of psi4numpy.             *)
(*                                                                         *)
(* Real numbers are modelled exactly as normalised rationals <<n, d>>.     *)
(* Orbitals, basis functions and Cartesian components are numbered from 1  *)
(* (the source numbers them from 0).                                       *)
(***************************************************************************)
EXTENDS Integers, Sequences, FiniteSets, TLC

VARIABLES
    pc,            \* position of the running script / method
    mol,           \* the molecule: what the reference and integral services return for it
    method,        \* self.method
    numpy_memory,  \* self.numpy_memory, in bytes (the source counts in 1e9 bytes)
    maxiter,       \* solve_static_iterative parameter
    conv,          \* solve_static_iterative parameter (a rational)
    use_diis,      \* solve_static_iterative parameter
    scf_wfn,       \* self.scf_wfn: None until psi4.energy has run
    self,          \* C, Co, Cv, epsilon, nbf, nocc, nvir, tmp_dipoles, dipoles_xyz
    x,             \* self.x
    polar,         \* self.polar (None: the attribute does not exist)
    error,         \* the exception that left solve(), "none" while none was raised
    cleaned,       \* psi4.core.clean() was called
    MO,            \* local of solve_static_direct
    H,             \* local of solve_static_direct
    Hinv,          \* local of solve_static_direct
    jk,            \* the Coulomb/exchange builder in use
    mat,           \* psi4.core.Matrix objects shared with numpy views (mC, R)
    x_old,         \* local of solve_static_iterative
    diis,          \* local of solve_static_iterative: per component, the vectors added
    CPHF_ITER,     \* loop counter of solve_static_iterative
    max_RMS,       \* local of solve_static_iterative
    converged,     \* the loop of solve_static_iterative was left through break
    ncompute,      \* number of jk.compute() calls made by the iterative solve
    jklog,         \* the calls made on the builder and its buffers, in order
    asm            \* beta.py's module-level variables

vars == <<pc, mol, method, numpy_memory, maxiter, conv, use_diis, scf_wfn, self, x, polar,
          error, cleaned, MO, H, Hinv, jk, mat, x_old, diis, CPHF_ITER, max_RMS,
          converged, ncompute, jklog, asm>>

(* An unset attribute or local.  The empty tuple compares with every value used
   here (matrices, records). *)
None == <<>>

(***************************************************************************)
(* Bounds of the model.                                                    *)
(***************************************************************************)
NBF == 3
MaxIter == 2

(* Number of Cartesian components: range(3). *)
NComp == 3
Comps == 1..NComp

(***************************************************************************)
(* Exact rational arithmetic.                                              *)
(***************************************************************************)
Abs(n) == IF n < 0 THEN -n ELSE n

RECURSIVE GCD(_, _)
GCD(a, b) == IF b = 0 THEN a ELSE GCD(b, a % b)

Rat(n, d) ==
    IF d = 1 THEN <<n, 1>>
    ELSE LET g == GCD(Abs(n), Abs(d))
             s == IF d < 0 THEN -1 ELSE 1
         IN  <<s * (n \div g), s * (d \div g)>>

RZero == <<0, 1>>
RInt(n) == <<n, 1>>
(* Sums and products cancel common factors before multiplying, to keep the
   intermediate integers small. *)
RAdd(a, b) == IF a[2] = 1 /\ b[2] = 1 THEN <<a[1] + b[1], 1>>
              ELSE LET g == GCD(a[2], b[2])
                   IN  Rat(a[1] * (b[2] \div g) + b[1] * (a[2] \div g), (a[2] \div g) * b[2])
RNeg(a) == <<-a[1], a[2]>>
RSub(a, b) == RAdd(a, RNeg(b))
RMul(a, b) == IF a[1] = 0 \/ b[1] = 0 THEN RZero
              ELSE IF a[2] = 1 /\ b[2] = 1 THEN <<a[1] * b[1], 1>>
              ELSE LET g1 == GCD(Abs(a[1]), b[2])
                       g2 == GCD(Abs(b[1]), a[2])
                   IN  <<(a[1] \div g1) * (b[1] \div g2), (a[2] \div g2) * (b[2] \div g1)>>
RDiv(a, b) == Rat(a[1] * b[2], a[2] * b[1])
(* a < b, by comparing integer parts and then the reciprocals of the fractional
   parts, so that no cross product is formed (the tolerance 1e-9 has a large
   denominator). *)
RECURSIVE RLess(_, _)
RLess(a, b) ==
    LET fa == a[1] \div a[2]
        fb == b[1] \div b[2]
        ra == a[1] % a[2]
        rb == b[1] % b[2]
    IN  IF fa # fb THEN fa < fb
        ELSE IF rb = 0 THEN FALSE
        ELSE IF ra = 0 THEN TRUE
        ELSE RLess(<<b[2], rb>>, <<a[2], ra>>)
RMax(a, b) == IF RLess(a, b) THEN b ELSE a

RECURSIVE RSum(_, _)
RSum(f, n) == IF n = 0 THEN RZero ELSE RAdd(f[n], RSum(f, n - 1))

RECURSIVE ISum(_, _)
ISum(f, n) == IF n = 0 THEN 0 ELSE f[n] + ISum(f, n - 1)

(***************************************************************************)
(* Matrices: functions row -> column -> rational.                          *)
(***************************************************************************)
NRows(A) == Cardinality(DOMAIN A)
NCols(A) == Cardinality(DOMAIN A[1])

Zeros(r, c) == [i \in 1..r |-> [j \in 1..c |-> RZero]]
Transpose(A) == [j \in DOMAIN A[1] |-> [i \in DOMAIN A |-> A[i][j]]]
Dot(A, B) ==
    [i \in DOMAIN A |-> [j \in DOMAIN B[1] |->
        RSum([k \in DOMAIN B |-> RMul(A[i][k], B[k][j])], NRows(B))]]
MatAdd(A, B) == [i \in DOMAIN A |-> [j \in DOMAIN A[1] |-> RAdd(A[i][j], B[i][j])]]
MatSub(A, B) == [i \in DOMAIN A |-> [j \in DOMAIN A[1] |-> RSub(A[i][j], B[i][j])]]
Scale(c, A) == [i \in DOMAIN A |-> [j \in DOMAIN A[1] |-> RMul(c, A[i][j])]]
ToRat(A) == [i \in DOMAIN A |-> [j \in DOMAIN A[1] |-> RInt(A[i][j])]]

(***************************************************************************)
(* The external services (psi4), as functions of the molecule.  A molecule *)
(* is [nocc, ccase, ecase, u, w, t, dcase]: the occupied count and selectors  *)
(* of the orbital coefficients, orbital energies, electron-repulsion       *)
(* integrals and dipole integrals the services return for it.              *)
(***************************************************************************)
(* scf_wfn.Ca(): nbf x nbf, columns are orbitals.  Orbital p is basis function p
   (ccase 1) or basis function p + 1, cyclically (ccase 2). *)
Ca(m) ==
    [a \in 1..NBF |-> [p \in 1..NBF |->
        IF m.ccase = 1 THEN (IF a = p THEN 1 ELSE 0)
        ELSE (IF a = (p % NBF) + 1 THEN 1 ELSE 0)]]

(* scf_wfn.epsilon_a(): increasing, so every virtual lies above every occupied. *)
epsilon_a(m) == [p \in 1..NBF |-> IF p <= m.nocc THEN p ELSE p + m.ecase - 1]

(* The atomic-orbital electron-repulsion integral (ab|cd), with the 8-fold
   permutational symmetry of real orbitals. *)
Near(a, b) == IF Abs(a - b) <= 1 THEN 1 ELSE 0
ERI(m, a, b, c, d) ==
    m.u * Near(a, b) * Near(c, d)
    + m.w * (IF (a = c /\ b = d) \/ (a = d /\ b = c) THEN 1 ELSE 0)
    + m.t * (IF a = b /\ c = d THEN 1 ELSE 0)

(* mints.so_dipole(): three symmetric nbf x nbf matrices. *)
so_dipole(m) ==
    [k \in Comps |-> [a \in 1..NBF |-> [b \in 1..NBF |->
        IF m.dcase = 0 THEN 0
        ELSE IF (a + b) % NComp = k - 1 THEN m.dcase ELSE 0]]]

(* mints.mo_eri(C1, C2, C3, C4)[i][p][q][r] =
   sum_abcd C1[a][i] C2[b][p] C3[c][q] C4[d][r] (ab|cd). *)
mo_eri(m, C1, C2, C3, C4) ==
    [i \in DOMAIN C1[1] |-> [p \in DOMAIN C2[1] |-> [q \in DOMAIN C3[1] |-> [r \in DOMAIN C4[1] |->
        ISum([a \in 1..NBF |-> IF C1[a][i] = 0 THEN 0 ELSE C1[a][i] *
          ISum([b \in 1..NBF |-> IF C2[b][p] = 0 THEN 0 ELSE C2[b][p] *
            ISum([c \in 1..NBF |-> IF C3[c][q] = 0 THEN 0 ELSE C3[c][q] *
              ISum([d \in 1..NBF |-> C4[d][r] * ERI(m, a, b, c, d)], NBF)], NBF)], NBF)], NBF)]]]]

(***************************************************************************)
(* helper_CPHF.__init__                                                    *)
(***************************************************************************)
(* Columns lo..hi of A, renumbered from 1: C[:, :ndocc], C[:, ndocc:]. *)
IntCols(A, lo, hi) == [i \in DOMAIN A |-> [j \in 1..(hi - lo + 1) |-> A[i][lo + j - 1]]]

(* Fia = -2 * nCo.T . Fso . nCv *)
PerturbationMO(Co, Fso, Cv) ==
    Scale(RInt(-2), Dot(Dot(Transpose(ToRat(Co)), ToRat(Fso)), ToRat(Cv)))

NewHelper(m) ==
    LET C == Ca(m)
        Co == IntCols(C, 1, m.nocc)
        Cv == IntCols(C, m.nocc + 1, NBF)
        dip == so_dipole(m)
    IN  [C |-> C, Co |-> Co, Cv |-> Cv, epsilon |-> epsilon_a(m),
         nbf |-> NBF, nocc |-> m.nocc, nvir |-> NBF - m.nocc,
         tmp_dipoles |-> dip,
         dipoles_xyz |-> [k \in Comps |-> PerturbationMO(Co, dip[k], Cv)]]

Construct ==
    /\ pc = "start"
    /\ scf_wfn' = mol
    /\ self' = NewHelper(mol)
    /\ x' = None
    /\ pc' = "constructed"
    /\ UNCHANGED <<mol, method, numpy_memory, maxiter, conv, use_diis, polar, error, cleaned,
                   MO, H, Hinv, jk, mat, x_old, diis, CPHF_ITER, max_RMS, converged,
                   ncompute, jklog, asm>>

(***************************************************************************)
(* helper_CPHF.solve: the dispatch on self.method                          *)
(***************************************************************************)
solve ==
    /\ pc = "constructed"
    /\ IF method = "direct" THEN pc' = "direct_check" /\ error' = error
       ELSE IF method = "iterative" THEN pc' = "iter_jk" /\ error' = error
       ELSE pc' = "raised" /\ error' = "not_recognized"
    /\ UNCHANGED <<mol, method, numpy_memory, maxiter, conv, use_diis, scf_wfn, self, x, polar,
                   cleaned, MO, H, Hinv, jk, mat, x_old, diis, CPHF_ITER, max_RMS, converged,
                   ncompute, jklog, asm>>

(***************************************************************************)
(* helper_CPHF.solve_static_direct                                         *)
(***************************************************************************)
(* Bytes of the nbf^4 tensor of doubles (the source scales by 1e-9). *)
BytesPerDouble == 8
I_Size(nbf) == nbf * nbf * nbf * nbf * BytesPerDouble

(* A guard that also fires when the tensor exactly fills the budget. *)
TooLargeInclusive(size, budget) == size >= budget

(* if I_Size > self.numpy_memory, line 69. *)
TooLarge(size, budget) == size > budget

DirectMemoryCheck ==
    /\ pc = "direct_check"
    /\ IF TooLarge(I_Size(self.nbf), numpy_memory)
       THEN cleaned' = TRUE /\ error' = "memory" /\ pc' = "raised"
       ELSE cleaned' = cleaned /\ error' = error /\ pc' = "direct_mo"
    /\ UNCHANGED <<mol, method, numpy_memory, maxiter, conv, use_diis, scf_wfn, self, x, polar,
                   MO, H, Hinv, jk, mat, x_old, diis, CPHF_ITER, max_RMS, converged,
                   ncompute, jklog, asm>>

(* MO = mints.mo_eri(Co, C, C, C); the call may fail. *)
DirectBuildMO ==
    /\ pc = "direct_mo"
    /\ \/ MO' = mo_eri(scf_wfn, self.Co, self.C, self.C, self.C)
          /\ pc' = "direct_hessian" /\ error' = error
       \/ MO' = MO /\ pc' = "raised" /\ error' = "mo_eri_failed"
    /\ UNCHANGED <<mol, method, numpy_memory, maxiter, conv, use_diis, scf_wfn, self, x, polar,
                   cleaned, H, Hinv, jk, mat, x_old, diis, CPHF_ITER, max_RMS, converged,
                   ncompute, jklog, asm>>

(* eps_diag[a][i] = epsilon[nocc + a] - epsilon[i] *)
eps_diag(s) == [a \in 1..s.nvir |-> [i \in 1..s.nocc |-> s.epsilon[s.nocc + a] - s.epsilon[i]]]

(* A Hessian whose (ja|ib) exchange term has the wrong sign. *)
HessianWrongSign(s, mo) ==
    LET o == s.nocc
        ed == eps_diag(s)
    IN  [i \in 1..o |-> [a \in 1..s.nvir |-> [j \in 1..o |-> [b \in 1..s.nvir |->
            (IF i = j /\ a = b THEN ed[a][i] ELSE 0)
            + 4 * mo[i][o + a][j][o + b]
            + mo[j][o + a][i][o + b]
            - mo[i][j][o + a][o + b]]]]]

(* H[i][a][j][b], lines 84-89. *)
Hessian(s, mo) ==
    LET o == s.nocc
        ed == eps_diag(s)
    IN  [i \in 1..o |-> [a \in 1..s.nvir |-> [j \in 1..o |-> [b \in 1..s.nvir |->
            (IF i = j /\ a = b THEN ed[a][i] ELSE 0)
            + 4 * mo[i][o + a][j][o + b]
            - mo[j][o + a][i][o + b]
            - mo[i][j][o + a][o + b]]]]]

DirectFormHessian ==
    /\ pc = "direct_hessian"
    /\ H' = Hessian(self, MO)
    /\ pc' = "direct_invert"
    /\ UNCHANGED <<mol, method, numpy_memory, maxiter, conv, use_diis, scf_wfn, self, x, polar,
                   error, cleaned, MO, Hinv, jk, mat, x_old, diis, CPHF_ITER, max_RMS,
                   converged, ncompute, jklog, asm>>

(* H.reshape(nocc * nvir, -1): row (i, a) -> (i - 1) * nvir + a. *)
Reshape2(h, o, v) ==
    [r \in 1..(o * v) |-> [c \in 1..(o * v) |->
        h[((r - 1) \div v) + 1][((r - 1) % v) + 1][((c - 1) \div v) + 1][((c - 1) % v) + 1]]]

RemoveAt(s, j) == [k \in 1..(Len(s) - 1) |-> IF k < j THEN s[k] ELSE s[k + 1]]

(* Determinant of the minor of M on the given rows and columns (Laplace expansion). *)
RECURSIVE Det(_, _, _)
Det(M, rows, cols) ==
    IF Len(rows) = 0 THEN 1
    ELSE ISum([j \in 1..Len(cols) |->
                 IF M[rows[1]][cols[j]] = 0 THEN 0
                 ELSE (IF j % 2 = 1 THEN 1 ELSE -1) * M[rows[1]][cols[j]]
                      * Det(M, Tail(rows), RemoveAt(cols, j))], Len(cols))

Iota(n) == [k \in 1..n |-> k]

(* np.linalg.inv: the adjugate over the determinant. *)
Inverse(M, n) ==
    LET det == Det(M, Iota(n), Iota(n))
    IN  [r \in 1..n |-> [c \in 1..n |->
            Rat((IF (r + c) % 2 = 0 THEN 1 ELSE -1)
                * Det(M, RemoveAt(Iota(n), c), RemoveAt(Iota(n), r)), det)]]

Singular(M, n) == Det(M, Iota(n), Iota(n)) = 0

(* .reshape(nocc, nvir, nocc, nvir) *)
Reshape4(M, o, v) ==
    [i \in 1..o |-> [a \in 1..v |-> [j \in 1..o |-> [b \in 1..v |->
        M[(i - 1) * v + a][(j - 1) * v + b]]]]]

(* np.linalg.inv raises on a singular matrix. *)
DirectInvert ==
    /\ pc = "direct_invert"
    /\ LET n == self.nocc * self.nvir
           M == Reshape2(H, self.nocc, self.nvir)
       IN  IF Singular(M, n)
           THEN Hinv' = Hinv /\ pc' = "raised" /\ error' = "singular"
           ELSE /\ Hinv' = Reshape4(Inverse(M, n), self.nocc, self.nvir)
                /\ pc' = "direct_response" /\ error' = error
    /\ UNCHANGED <<mol, method, numpy_memory, maxiter, conv, use_diis, scf_wfn, self, x, polar,
                   cleaned, MO, H, jk, mat, x_old, diis, CPHF_ITER, max_RMS, converged,
                   ncompute, jklog, asm>>

(* xcomp = np.einsum('iajb,ia->jb', Hinv, dipoles_xyz[numx]) *)
Response(hinv, P, o, v) ==
    [j \in 1..o |-> [b \in 1..v |->
        RSum([i \in 1..o |->
            RSum([a \in 1..v |-> RMul(hinv[i][a][j][b], P[i][a])], v)], o)]]

DirectResponse ==
    /\ pc = "direct_response"
    /\ x' = [k \in Comps |-> Response(Hinv, self.dipoles_xyz[k], self.nocc, self.nvir)]
    /\ pc' = "form_polarizability"
    /\ UNCHANGED <<mol, method, numpy_memory, maxiter, conv, use_diis, scf_wfn, self, polar,
                   error, cleaned, MO, H, Hinv, jk, mat, x_old, diis, CPHF_ITER, max_RMS,
                   converged, ncompute, jklog, asm>>

(***************************************************************************)
(* The Coulomb/exchange builder (psi4.core.JK).  C_left holds the left     *)
(* matrices, C_right the registered right Matrix objects (by identity: a   *)
(* numpy view writes through to them), J and K the results of the last     *)
(* compute().                                                              *)
(***************************************************************************)
NewJK == [C_left |-> <<>>, C_right |-> <<>>, J |-> <<>>, K |-> <<>>]

Ev(op, k, c) == [op |-> op, k |-> k, c |-> c]

(* D = C_left . C_right^T; J[a][b] = sum_cd (ab|cd) D[c][d]. *)
Coulomb(m, D) ==
    [a \in 1..NBF |-> [b \in 1..NBF |->
        RSum([c \in 1..NBF |->
            RSum([d \in 1..NBF |-> RMul(RInt(ERI(m, a, b, c, d)), D[c][d])], NBF)], NBF)]]

(* K[a][b] = sum_cd (ac|bd) D[c][d]. *)
Exchange(m, D) ==
    [a \in 1..NBF |-> [b \in 1..NBF |->
        RSum([c \in 1..NBF |->
            RSum([d \in 1..NBF |-> RMul(RInt(ERI(m, a, c, b, d)), D[c][d])], NBF)], NBF)]]

Density(Cl, Cr) == Dot(ToRat(Cl), Transpose(Cr))

(* jk.compute(): one J and one K per registered pair, from the present contents
   of the right matrices. *)
JKCompute(m, b, matrices) ==
    [b EXCEPT
        !.J = [k \in 1..Len(b.C_left) |-> Coulomb(m, Density(b.C_left[k], matrices[b.C_right[k]]))],
        !.K = [k \in 1..Len(b.C_left) |-> Exchange(m, Density(b.C_left[k], matrices[b.C_right[k]]))]]

(***************************************************************************)
(* helper_CPHF.solve_static_iterative                                      *)
(***************************************************************************)
(* jk = psi4.core.JK.build(...); jk.initialize() *)
IterJKInit ==
    /\ pc = "iter_jk"
    /\ jk' = NewJK
    /\ mat' = <<>>
    /\ pc' = "iter_register"
    /\ UNCHANGED <<mol, method, numpy_memory, maxiter, conv, use_diis, scf_wfn, self, x, polar,
                   error, cleaned, MO, H, Hinv, x_old, diis, CPHF_ITER, max_RMS, converged,
                   ncompute, jklog, asm>>

(* One pass of the loop of lines 113-117, for xyz = Len(jk.C_left) + 1. *)
IterRegister ==
    /\ pc = "iter_register"
    /\ LET xyz == Len(jk.C_left) + 1
       IN  /\ mat' = Append(mat, Zeros(self.nbf, self.nocc))
           /\ jk' = [jk EXCEPT !.C_left = Append(@, self.Co),
                               !.C_right = Append(@, Len(mat) + 1)]
           /\ jklog' = jklog \o <<Ev("C_left_add", xyz, xyz), Ev("C_right_add", xyz, xyz)>>
           /\ pc' = IF xyz = NComp THEN "iter_guess" ELSE "iter_register"
    /\ UNCHANGED <<mol, method, numpy_memory, maxiter, conv, use_diis, scf_wfn, self, x, polar,
                   error, cleaned, MO, H, Hinv, x_old, diis, CPHF_ITER, max_RMS, converged,
                   ncompute, asm>>

(* ia_denom[i][a] = -epsilon[i] + epsilon[nocc + a] *)
ia_denom(s) == [i \in 1..s.nocc |-> [a \in 1..s.nvir |-> -s.epsilon[i] + s.epsilon[s.nocc + a]]]

(* Elementwise A / D, D an integer matrix. *)
DivideBy(A, D) == [i \in DOMAIN A |-> [a \in DOMAIN A[1] |-> RDiv(A[i][a], RInt(D[i][a]))]]

(* Lines 120-127 and the first pass through the loop header of line 135. *)
IterGuess ==
    /\ pc = "iter_guess"
    /\ x' = [k \in Comps |-> DivideBy(self.dipoles_xyz[k], ia_denom(self))]
    /\ x_old' = [k \in Comps |-> Zeros(self.nocc, self.nvir)]
    /\ diis' = [k \in Comps |-> <<>>]
    /\ CPHF_ITER' = 1
    /\ jklog' = jklog \o [k \in Comps |-> Ev("x", 0, k)]
    /\ pc' = "iter_right"
    /\ UNCHANGED <<mol, method, numpy_memory, maxiter, conv, use_diis, scf_wfn, self, polar,
                   error, cleaned, MO, H, Hinv, jk, mat, max_RMS, converged, ncompute, asm>>

(* npC_right[xyz][:] = Cv.dot(self.x[xyz].T) *)
RightOf(Cv, xk) == Dot(ToRat(Cv), Transpose(xk))

(* A loop that goes to compute() without refreshing the right buffers. *)
IterUpdateRightSkipped ==
    /\ pc = "iter_right"
    /\ pc' = "iter_compute"
    /\ UNCHANGED <<mol, method, numpy_memory, maxiter, conv, use_diis, scf_wfn, self, x, polar,
                   error, cleaned, MO, H, Hinv, jk, mat, x_old, diis, CPHF_ITER, max_RMS,
                   converged, ncompute, jklog, asm>>

(* A loop that registers the three pairs again on every pass. *)
IterUpdateRightReregistering ==
    /\ pc = "iter_right"
    /\ mat' = [b \in DOMAIN mat |-> RightOf(self.Cv, x[b])]
    /\ jk' = [jk EXCEPT !.C_left = @ \o [k \in Comps |-> self.Co],
                        !.C_right = @ \o [k \in Comps |-> k]]
    /\ jklog' = jklog \o [k \in Comps |-> Ev("write", k, k)]
                      \o [k \in Comps |-> Ev("C_left_add", Len(jk.C_left) + k, k)]
                      \o [k \in Comps |-> Ev("C_right_add", Len(jk.C_right) + k, k)]
    /\ pc' = "iter_compute"
    /\ UNCHANGED <<mol, method, numpy_memory, maxiter, conv, use_diis, scf_wfn, self, x, polar,
                   error, cleaned, MO, H, Hinv, x_old, diis, CPHF_ITER, max_RMS, converged,
                   ncompute, asm>>

(* Lines 138-139. *)
IterUpdateRight ==
    /\ pc = "iter_right"
    /\ mat' = [b \in DOMAIN mat |-> RightOf(self.Cv, x[b])]
    /\ jklog' = jklog \o [k \in Comps |-> Ev("write", k, k)]
    /\ pc' = "iter_compute"
    /\ UNCHANGED <<mol, method, numpy_memory, maxiter, conv, use_diis, scf_wfn, self, x, polar,
                   error, cleaned, MO, H, Hinv, jk, x_old, diis, CPHF_ITER, max_RMS, converged,
                   ncompute, asm>>

(* jk.compute(); the call may fail. *)
IterCompute ==
    /\ pc = "iter_compute"
    /\ \/ /\ jk' = JKCompute(scf_wfn, jk, mat)
          /\ ncompute' = ncompute + 1
          /\ jklog' = Append(jklog, Ev("compute", 0, 0))
          /\ pc' = "iter_amplitudes" /\ error' = error
       \/ /\ pc' = "raised" /\ error' = "jk_failed"
          /\ UNCHANGED <<jk, ncompute, jklog>>
    /\ UNCHANGED <<mol, method, numpy_memory, maxiter, conv, use_diis, scf_wfn, self, x, polar,
                   cleaned, MO, H, Hinv, mat, x_old, diis, CPHF_ITER, max_RMS, converged, asm>>

(* X = (dipoles_xyz - Co.T . (4 J - K.T - K) . Cv) / ia_denom, lines 151-153. *)
NewGuess(s, P, J, K) ==
    LET F == MatSub(MatSub(Scale(RInt(4), J), Transpose(K)), K)
    IN  DivideBy(MatSub(P, Dot(Dot(Transpose(ToRat(s.Co)), F), ToRat(s.Cv))), ia_denom(s))

(* DIIS_helper.extrapolate on the vectors added so far: the only vector when there
   is one, otherwise a combination of the last two with coefficients summing to 1,
   (1 + c) * last - c * previous. *)
DiisCoefficients == {0, 1}
Extrapolate(vectors, c) ==
    LET n == Len(vectors)
    IN  IF n = 1 \/ c = 0 THEN vectors[n]
        ELSE MatSub(Scale(RInt(1 + c), vectors[n]), Scale(RInt(c), vectors[n - 1]))

(* What one pass of the loop of lines 145-159 does to the builder and to self.x,
   for xyz = 1..n: reads jk.J()[xyz] and jk.K()[xyz], then assigns self.x[xyz]. *)
RECURSIVE AmplitudeEvents(_)
AmplitudeEvents(n) ==
    IF n = 0 THEN <<>>
    ELSE AmplitudeEvents(n - 1) \o <<Ev("J", n, n), Ev("K", n, n), Ev("x", 0, n)>>

(* The loop of lines 145-159 over the three components. *)
IterAmplitudes ==
    /\ pc = "iter_amplitudes"
    /\ \E c \in (IF use_diis /\ CPHF_ITER > 1 THEN DiisCoefficients ELSE {0}) :
         LET X == [k \in Comps |-> NewGuess(self, self.dipoles_xyz[k], jk.J[k], jk.K[k])]
             added == [k \in Comps |-> Append(diis[k], X[k])]
         IN  /\ diis' = IF use_diis THEN added ELSE diis
             /\ x' = IF use_diis THEN [k \in Comps |-> Extrapolate(added[k], c)] ELSE X
    /\ jklog' = jklog \o AmplitudeEvents(NComp)
    /\ pc' = "iter_check"
    /\ UNCHANGED <<mol, method, numpy_memory, maxiter, conv, use_diis, scf_wfn, self, polar,
                   error, cleaned, MO, H, Hinv, jk, mat, x_old, CPHF_ITER, max_RMS, converged,
                   ncompute, asm>>

(* np.max((A - B) ** 2) *)
RECURSIVE RMaxOf(_, _)
RMaxOf(f, n) == IF n = 1 THEN f[1] ELSE RMax(f[n], RMaxOf(f, n - 1))

MaxSquaredChange(A, B) ==
    RMaxOf([i \in DOMAIN A |->
        RMaxOf([a \in DOMAIN A[1] |->
            LET d == RSub(A[i][a], B[i][a]) IN RMul(d, d)], NCols(A))], NRows(A))

(* A loop header that admits one pass more than maxiter. *)
IterCheckOneMore ==
    /\ pc = "iter_check"
    /\ LET rms == [k \in Comps |-> MaxSquaredChange(x[k], x_old[k])]
           m == RMaxOf(rms, NComp)
       IN  /\ max_RMS' = m
           /\ x_old' = x
           /\ IF RLess(m, conv)
              THEN converged' = TRUE /\ pc' = "form_polarizability" /\ CPHF_ITER' = CPHF_ITER
              ELSE /\ converged' = converged
                   /\ IF CPHF_ITER <= maxiter
                      THEN CPHF_ITER' = CPHF_ITER + 1 /\ pc' = "iter_right"
                      ELSE CPHF_ITER' = CPHF_ITER /\ pc' = "form_polarizability"
    /\ UNCHANGED <<mol, method, numpy_memory, maxiter, conv, use_diis, scf_wfn, self, x, polar,
                   error, cleaned, MO, H, Hinv, jk, mat, diis, ncompute, jklog, asm>>

(* Lines 162-175 and the next pass through the loop header of line 135. *)
IterCheck ==
    /\ pc = "iter_check"
    /\ LET rms == [k \in Comps |-> MaxSquaredChange(x[k], x_old[k])]
           m == RMaxOf(rms, NComp)
       IN  /\ max_RMS' = m
           /\ x_old' = x
           /\ IF RLess(m, conv)
              THEN converged' = TRUE /\ pc' = "form_polarizability" /\ CPHF_ITER' = CPHF_ITER
              ELSE /\ converged' = converged
                   /\ IF CPHF_ITER < maxiter
                      THEN CPHF_ITER' = CPHF_ITER + 1 /\ pc' = "iter_right"
                      ELSE CPHF_ITER' = CPHF_ITER /\ pc' = "form_polarizability"
    /\ UNCHANGED <<mol, method, numpy_memory, maxiter, conv, use_diis, scf_wfn, self, x, polar,
                   error, cleaned, MO, H, Hinv, jk, mat, diis, ncompute, jklog, asm>>

(***************************************************************************)
(* helper_CPHF.form_polarizability                                         *)
(***************************************************************************)
(* np.einsum('ia,ia->', A, B) *)
Contract(A, B) ==
    RSum([i \in DOMAIN A |->
        RSum([a \in DOMAIN A[1] |-> RMul(A[i][a], B[i][a])], NCols(A))], NRows(A))

form_polarizability ==
    /\ pc = "form_polarizability"
    /\ polar' = [numx \in Comps |-> [numf \in Comps |-> Contract(x[numx], self.dipoles_xyz[numf])]]
    /\ pc' = "solved"
    /\ UNCHANGED <<mol, method, numpy_memory, maxiter, conv, use_diis, scf_wfn, self, x,
                   error, cleaned, MO, H, Hinv, jk, mat, x_old, diis, CPHF_ITER, max_RMS,
                   converged, ncompute, jklog, asm>>

(***************************************************************************)
(* beta.py: the hyperpolarizability assembler.  It runs the helper in      *)
(* direct mode (line 41) and continues from the solved helper.             *)
(***************************************************************************)
NPairs == 6
off1 == <<1, 2, 3, 1, 1, 2>>
off2 == <<1, 2, 3, 2, 3, 3>>

(* integrals_mo[i] = C.T . integrals_ao[i] . C, lines 46-60. *)
AsmTransform ==
    /\ pc = "solved" /\ method = "direct"
    /\ asm' = [integrals_mo |->
                  [i \in Comps |-> Dot(Dot(Transpose(ToRat(self.C)), ToRat(self.tmp_dipoles[i])),
                                       ToRat(self.C))],
               U |-> None, G |-> None, E |-> None, i |-> 0, r |-> 0, a |-> 0,
               hyperpolarizability |-> None, written |-> None]
    /\ pc' = "asm_U"
    /\ UNCHANGED <<mol, method, numpy_memory, maxiter, conv, use_diis, scf_wfn, self, x, polar,
                   error, cleaned, MO, H, Hinv, jk, mat, x_old, diis, CPHF_ITER, max_RMS,
                   converged, ncompute, jklog>>

Half == <<1, 2>>

(* U[:nocc, nocc:] = 0.5 * x; U[nocc:, :nocc] = -0.5 * x.T; zero elsewhere. *)
Embed(xi, nocc, norb) ==
    [p \in 1..norb |-> [q \in 1..norb |->
        IF p <= nocc /\ q > nocc THEN RMul(Half, xi[p][q - nocc])
        ELSE IF p > nocc /\ q <= nocc THEN RNeg(RMul(Half, xi[q][p - nocc]))
        ELSE RZero]]

(* Lines 63-66. *)
AsmEmbed ==
    /\ pc = "asm_U"
    /\ asm' = [asm EXCEPT !.U = [i \in Comps |-> Embed(x[i], self.nocc, self.nbf)]]
    /\ pc' = "asm_jk"
    /\ UNCHANGED <<mol, method, numpy_memory, maxiter, conv, use_diis, scf_wfn, self, x, polar,
                   error, cleaned, MO, H, Hinv, jk, mat, x_old, diis, CPHF_ITER, max_RMS,
                   converged, ncompute, jklog>>

(* Lines 70-75: a new builder, the Matrix R with its view npR, G unfilled. *)
AsmJKInit ==
    /\ pc = "asm_jk"
    /\ jk' = NewJK
    /\ mat' = <<Zeros(self.nbf, self.nocc)>>
    /\ jklog' = <<>>
    /\ asm' = [asm EXCEPT !.G = [i \in Comps |-> None], !.i = 1]
    /\ pc' = "asm_register"
    /\ UNCHANGED <<mol, method, numpy_memory, maxiter, conv, use_diis, scf_wfn, self, x, polar,
                   error, cleaned, MO, H, Hinv, x_old, diis, CPHF_ITER, max_RMS, converged,
                   ncompute>>

(* jk.C_clear() *)
C_clear(b) == [b EXCEPT !.C_left = <<>>, !.C_right = <<>>]

(* Lines 82-86 for component asm.i. *)
AsmRegister ==
    /\ pc = "asm_register"
    /\ mat' = [mat EXCEPT ![1] = RightOf(self.Cv, x[asm.i])]
    /\ jk' = [C_clear(jk) EXCEPT !.C_left = <<self.Co>>, !.C_right = <<1>>]
    /\ jklog' = jklog \o <<Ev("C_clear", 0, asm.i), Ev("write", 1, asm.i),
                           Ev("C_left_add", 1, asm.i), Ev("C_right_add", 1, asm.i)>>
    /\ pc' = "asm_compute"
    /\ UNCHANGED <<mol, method, numpy_memory, maxiter, conv, use_diis, scf_wfn, self, x, polar,
                   error, cleaned, MO, H, Hinv, x_old, diis, CPHF_ITER, max_RMS, converged,
                   ncompute, asm>>

(* Line 87; the call may fail. *)
AsmCompute ==
    /\ pc = "asm_compute"
    /\ \/ /\ jk' = JKCompute(scf_wfn, jk, mat)
          /\ jklog' = Append(jklog, Ev("compute", 0, 0))
          /\ pc' = "asm_G" /\ error' = error
       \/ /\ pc' = "raised" /\ error' = "asm_jk_failed"
          /\ UNCHANGED <<jk, jklog>>
    /\ UNCHANGED <<mol, method, numpy_memory, maxiter, conv, use_diis, scf_wfn, self, x, polar,
                   cleaned, MO, H, Hinv, mat, x_old, diis, CPHF_ITER, max_RMS, converged,
                   ncompute, asm>>

(* J = 0.5 * jk.J()[0]; K = 0.5 * jk.K()[0]; G = V + C.T . (4 J - K.T - K) . C *)
GMatrix(V, C, J0, K0) ==
    LET J == Scale(Half, J0)
        K == Scale(Half, K0)
        F == MatSub(MatSub(Scale(RInt(4), J), Transpose(K)), K)
    IN  MatAdd(V, Dot(Dot(Transpose(ToRat(C)), F), ToRat(C)))

(* Lines 88-93 and the loop header of line 75. *)
AsmFormG ==
    /\ pc = "asm_G"
    /\ asm' = [asm EXCEPT !.G[asm.i] = GMatrix(asm.integrals_mo[asm.i], self.C, jk.J[1], jk.K[1]),
                          !.i = IF asm.i < NComp THEN asm.i + 1 ELSE asm.i]
    /\ jklog' = jklog \o <<Ev("J", 1, asm.i), Ev("K", 1, asm.i)>>
    /\ pc' = IF asm.i < NComp THEN "asm_register" ELSE "asm_E"
    /\ UNCHANGED <<mol, method, numpy_memory, maxiter, conv, use_diis, scf_wfn, self, x, polar,
                   error, cleaned, MO, H, Hinv, jk, mat, x_old, diis, CPHF_ITER, max_RMS,
                   converged, ncompute>>

omega == 0

(* E[i] = G[i] + (moenergies[p] + omega) * U[i][p][q] - U[i][p][q] * moenergies[q] *)
EMatrix(Gi, Ui, eps) ==
    [p \in DOMAIN Gi |-> [q \in DOMAIN Gi |->
        RAdd(Gi[p][q], RSub(RMul(RInt(eps[p] + omega), Ui[p][q]), RMul(Ui[p][q], RInt(eps[q]))))]]

(* Lines 96-107. *)
AsmFormE ==
    /\ pc = "asm_E"
    /\ asm' = [asm EXCEPT !.E = [i \in Comps |-> EMatrix(asm.G[i], asm.U[i], self.epsilon)],
                          !.hyperpolarizability = [r \in 1..NPairs |-> [a \in Comps |-> RZero]],
                          !.written = [r \in 1..NPairs |-> [a \in Comps |-> 0]],
                          !.r = 1, !.a = 1]
    /\ pc' = "asm_contract"
    /\ UNCHANGED <<mol, method, numpy_memory, maxiter, conv, use_diis, scf_wfn, self, x, polar,
                   error, cleaned, MO, H, Hinv, jk, mat, x_old, diis, CPHF_ITER, max_RMS,
                   converged, ncompute, jklog>>

(* np.trace(A.dot(B).dot(C)[:nocc, :nocc]) *)
OccTrace(A, B, C, nocc) ==
    LET n == NRows(A)
    IN  RSum([i \in 1..nocc |->
            RSum([p \in 1..n |->
                IF A[i][p][1] = 0 THEN RZero
                ELSE RMul(A[i][p],
                          RSum([q \in 1..n |-> RMul(B[p][q], C[q][i])], n))], n)], nocc)

(* Left terms whose second term repeats the first (G's index not exchanged). *)
LeftTermsRepeated(U, G, nocc, a, b, c) ==
    RAdd(RAdd(RMul(RInt(2), OccTrace(U[a], G[b], U[c], nocc)),
              RMul(RInt(2), OccTrace(U[a], G[b], U[c], nocc))),
         RMul(RInt(2), OccTrace(U[c], G[a], U[b], nocc)))

(* tl = tl1 + tl2 + tl3, lines 112-114 and 121. *)
LeftTerms(U, G, nocc, a, b, c) ==
    RAdd(RAdd(RMul(RInt(2), OccTrace(U[a], G[b], U[c], nocc)),
              RMul(RInt(2), OccTrace(U[a], G[c], U[b], nocc))),
         RMul(RInt(2), OccTrace(U[c], G[a], U[b], nocc)))

(* Right terms without the sixth ordering. *)
RightTermsFive(U, E, nocc, a, b, c) ==
    RAdd(RAdd(RAdd(OccTrace(U[c], U[b], E[a], nocc), OccTrace(U[b], U[c], E[a], nocc)),
              RAdd(OccTrace(U[c], U[a], E[b], nocc), OccTrace(U[a], U[c], E[b], nocc))),
         OccTrace(U[b], U[a], E[c], nocc))

(* tr = tr1 + ... + tr6, lines 115-120 and 122. *)
RightTerms(U, E, nocc, a, b, c) ==
    RAdd(RAdd(RAdd(OccTrace(U[c], U[b], E[a], nocc), OccTrace(U[b], U[c], E[a], nocc)),
              RAdd(OccTrace(U[c], U[a], E[b], nocc), OccTrace(U[a], U[c], E[b], nocc))),
         RAdd(OccTrace(U[b], U[a], E[c], nocc), OccTrace(U[a], U[b], E[c], nocc)))

(* -2 * (tl - tr), line 123. *)
Entry(U, G, E, nocc, a, b, c) ==
    RMul(RInt(-2), RSub(LeftTerms(U, G, nocc, a, b, c), RightTerms(U, E, nocc, a, b, c)))

(* One pass of the inner loop, lines 109-123, for r = asm.r and a = asm.a. *)
AsmContract ==
    /\ pc = "asm_contract"
    /\ LET r == asm.r
           a == asm.a
           last == (r = NPairs /\ a = NComp)
       IN  /\ asm' = [asm EXCEPT
                   !.hyperpolarizability[r][a] =
                       Entry(asm.U, asm.G, asm.E, self.nocc, a, off1[r], off2[r]),
                   !.written[r][a] = @ + 1,
                   !.a = IF last THEN a ELSE IF a = NComp THEN 1 ELSE a + 1,
                   !.r = IF last THEN r ELSE IF a = NComp THEN r + 1 ELSE r]
           /\ pc' = IF last THEN "asm_done" ELSE "asm_contract"
    /\ UNCHANGED <<mol, method, numpy_memory, maxiter, conv, use_diis, scf_wfn, self, x, polar,
                   error, cleaned, MO, H, Hinv, jk, mat, x_old, diis, CPHF_ITER, max_RMS,
                   converged, ncompute, jklog>>

(***************************************************************************)
(* The runs considered.                                                    *)
(***************************************************************************)
DefaultMemory == 2000000000
DefaultMaxIter == 20
DefaultConv == <<1, 1000000000>>

Molecules ==
    [nocc : 1..(NBF - 1), ccase : {1, 2}, ecase : {1, 2}, u : {0, 1}, w : {0, 1}, t : {0, 1},
     dcase : {0, 1}]

Init ==
    /\ pc = "start"
    /\ mol \in Molecules
    /\ \/ /\ method = "direct"
          /\ numpy_memory \in {I_Size(NBF) - 1, I_Size(NBF), DefaultMemory}
          /\ maxiter = DefaultMaxIter /\ conv = DefaultConv /\ use_diis = TRUE
       \/ /\ method = "iterative"
          /\ numpy_memory = DefaultMemory
          /\ maxiter \in 1..MaxIter
          /\ conv \in {DefaultConv, RInt(1)}
          /\ use_diis \in BOOLEAN
       \/ /\ method = "newton"
          /\ numpy_memory = DefaultMemory
          /\ maxiter = DefaultMaxIter /\ conv = DefaultConv /\ use_diis = TRUE
    /\ scf_wfn = None /\ self = None /\ x = None /\ polar = None
    /\ error = "none" /\ cleaned = FALSE
    /\ MO = None /\ H = None /\ Hinv = None
    /\ jk = None /\ mat = <<>>
    /\ x_old = None /\ diis = None /\ CPHF_ITER = 0 /\ max_RMS = None
    /\ converged = FALSE /\ ncompute = 0 /\ jklog = <<>>
    /\ asm = None

Next ==
    \/ Construct
    \/ solve
    \/ DirectMemoryCheck
    \/ DirectBuildMO
    \/ DirectFormHessian
    \/ DirectInvert
    \/ DirectResponse
    \/ IterJKInit
    \/ IterRegister
    \/ IterGuess
    \/ IterUpdateRight
    \/ IterCompute
    \/ IterAmplitudes
    \/ IterCheck
    \/ form_polarizability
    \/ AsmTransform
    \/ AsmEmbed
    \/ AsmJKInit
    \/ AsmRegister
    \/ AsmCompute
    \/ AsmFormG
    \/ AsmFormE
    \/ AsmContract

Spec == Init /\ [][Next]_vars

(* The positions at which the script has stopped: an exception left it, the
   assembler finished, or a helper run on its own returned from solve(). *)
Stopped == pc \in {"raised", "asm_done"} \/ (pc = "solved" /\ method # "direct")

Positions ==
    {"start", "constructed", "raised", "direct_check", "direct_mo", "direct_hessian",
     "direct_invert", "direct_response", "iter_jk", "iter_register", "iter_guess",
     "iter_right", "iter_compute", "iter_amplitudes", "iter_check", "form_polarizability",
     "solved", "asm_U", "asm_jk", "asm_register", "asm_compute", "asm_G", "asm_E",
     "asm_contract", "asm_done"}

(* The interpreter keeps running the script: while it has not stopped, its
   position moves on.  (The steps that keep the position are passes of for
   loops over fixed ranges, helper_CPHF.py line 113 and beta.py lines 108-111.) *)
Advance == ~Stopped /\ \E p \in Positions : pc' = p
FairSpec == Spec /\ WF_pc(Advance)

(***************************************************************************)
(* Properties.                                                             *)
(***************************************************************************)
(* The exceptions that leave helper_CPHF.solve(). *)
SolveErrors == {"not_recognized", "memory", "mo_eri_failed", "singular", "jk_failed"}

(* solve_static_direct is past its memory check. *)
PastMemoryCheck == method = "direct" /\ pc \notin {"start", "constructed", "direct_check"}

(* C1: in direct mode, when nbf^4 * 8 bytes exceeds numpy_memory the solver has
   raised with no integral tensor, Hessian or inverse built and self.x still
   None; when it does not exceed the budget the memory error is not raised. *)
C1_MemoryGuard ==
    PastMemoryCheck =>
        IF self.nbf * self.nbf * self.nbf * self.nbf * 8 > numpy_memory
        THEN /\ pc = "raised" /\ error = "memory"
             /\ MO = None /\ H = None /\ Hinv = None /\ x = None
        ELSE error # "memory"

C1_Witness == pc = "raised" /\ error = "memory" /\ x = None

(* C2: with a selector other than 'direct' and 'iterative' the solver fails
   with the configuration error and nothing was computed for that selector:
   no reference wavefunction or integrals, no solver routine, no
   polarizability, and self.x unset. *)
C2_NoComputation ==
    error = "not_recognized" =>
        /\ scf_wfn = None /\ self = None
        /\ MO = None /\ jk = None
        /\ polar = None /\ x = None

(* What a caller of solve() can observe of its outcome: the exception, and
   whether response vectors and polarizability are set. *)
Outcome == [raised |-> error, x_set |-> x # None, polar_set |-> polar # None]
SuccessOutcome == [raised |-> "none", x_set |-> TRUE, polar_set |-> TRUE]

(* C3: an iterative solve() that used up maxiter without meeting the tolerance
   ends with an outcome different from that of a converged solve(). *)
C3_Distinguishable ==
    (method = "iterative" /\ pc = "solved" /\ ~converged) => Outcome # SuccessOutcome

(* C4: when solve() ends in an error, the polarizability is not set and
   self.x holds no response vectors. *)
C4_AllOrNothing ==
    error \in SolveErrors => polar = None /\ x = None

RowOf(b, c) == CHOOSE r \in 1..NPairs : {off1[r], off2[r]} = {b, c}

Symmetric(A) == \A p \in DOMAIN A : \A q \in DOMAIN A : A[p][q] = A[q][p]
Antisymmetric(A) == \A p \in DOMAIN A : \A q \in DOMAIN A : A[p][q] = RNeg(A[q][p])

(* C5: with the U of the antisymmetric embedding and the G and E formed from
   them, G is symmetric, the contraction formula gives the same value with
   (c, b) in place of (b, c), and the 6-row table equals the 27-component
   tensor at every (a, b, c), whichever ordering of the pair is taken. *)
C5_ExchangeSymmetry ==
    pc = "asm_done" =>
        /\ \A k \in Comps : Antisymmetric(asm.U[k]) /\ Symmetric(asm.G[k])
        /\ \A a \in Comps : \A b \in Comps : \A c \in Comps :
              /\ Entry(asm.U, asm.G, asm.E, self.nocc, a, c, b)
                    = Entry(asm.U, asm.G, asm.E, self.nocc, a, b, c)
              /\ asm.hyperpolarizability[RowOf(b, c)][a]
                    = Entry(asm.U, asm.G, asm.E, self.nocc, a, c, b)

(* A finished table with a non-zero entry in a row of a mixed pair. *)
C5_Witness ==
    /\ pc = "asm_done"
    /\ \E r \in 4..NPairs : \E a \in Comps : asm.hyperpolarizability[r][a] # RZero

(* One pass of the iterative update from xk, with the builder's J and K of xk. *)
IterStep(m, s, P, xk) ==
    LET D == Density(s.Co, RightOf(s.Cv, xk))
    IN  NewGuess(s, P, Coulomb(m, D), Exchange(m, D))

(* (H x)[i][a] = sum_jb H[i][a][j][b] x[j][b] *)
ApplyHessian(h, xk, o, v) ==
    [i \in 1..o |-> [a \in 1..v |->
        RSum([j \in 1..o |->
            RSum([b \in 1..v |-> RMul(RInt(h[i][a][j][b]), xk[j][b])], v)], o)]]

(* (eps_vir - eps_occ) * (xk - IterStep(xk)): what the update changes, unscaled. *)
UpdateResidual(m, s, P, xk) ==
    LET d == MatSub(xk, IterStep(m, s, P, xk))
        den == ia_denom(s)
    IN  [i \in DOMAIN d |-> [a \in DOMAIN d[1] |-> RMul(RInt(den[i][a]), d[i][a])]]

(* C6: the response vectors of the direct solve are a fixed point of the
   iterative update, and for the vectors the iterative solve ends with, what
   the update would still change is exactly the residual H x - P of the direct
   solve's linear system: the update is at rest where H x = P and only there. *)
C6_SameLinearSystem ==
    /\ (method = "direct" /\ pc = "form_polarizability") =>
          \A k \in Comps : IterStep(scf_wfn, self, self.dipoles_xyz[k], x[k]) = x[k]
    /\ (method = "iterative" /\ pc = "form_polarizability") =>
          LET h == Hessian(self, mo_eri(scf_wfn, self.Co, self.C, self.C, self.C))
          IN  \A k \in Comps :
                 UpdateResidual(scf_wfn, self, self.dipoles_xyz[k], x[k])
                    = MatSub(ApplyHessian(h, x[k], self.nocc, self.nvir), self.dipoles_xyz[k])

(* A direct solve with coupled orbital pairs and a non-zero response. *)
C6_Witness ==
    /\ method = "direct" /\ pc = "form_polarizability"
    /\ \E i \in 1..self.nocc : \E a \in 1..self.nvir : \E j \in 1..self.nocc : \E b \in 1..self.nvir :
          <<i, a>> # <<j, b>> /\ H[i][a][j][b] # 0
    /\ \E k \in Comps : x[k] # Zeros(self.nocc, self.nvir)

(* The (r, a) passes of the contraction loop that have run. *)
Processed(r, a) ==
    \/ pc = "asm_done"
    \/ pc = "asm_contract" /\ (r < asm.r \/ (r = asm.r /\ a < asm.a))

(* The three left traces and the six right traces of the pair (b, c) and the
   free index a, each taken once. *)
ThreeTraces(a, b, c) ==
    RAdd(OccTrace(asm.U[a], asm.G[b], asm.U[c], self.nocc),
         RAdd(OccTrace(asm.U[a], asm.G[c], asm.U[b], self.nocc),
              OccTrace(asm.U[c], asm.G[a], asm.U[b], self.nocc)))
Orderings(a, b, c) ==
    <<<<c, b, a>>, <<b, c, a>>, <<c, a, b>>, <<a, c, b>>, <<b, a, c>>, <<a, b, c>>>>
SixTraces(a, b, c) ==
    RSum([n \in 1..6 |->
            LET o == Orderings(a, b, c)[n]
            IN  OccTrace(asm.U[o[1]], asm.U[o[2]], asm.E[o[3]], self.nocc)], 6)

(* Every pass that has run wrote its entry once, every other entry is unwritten. *)
WrittenOnce ==
    \A r \in 1..NPairs : \A a \in Comps :
        asm.written[r][a] = IF Processed(r, a) THEN 1 ELSE 0

(* C7 as stated: every entry [r, a] is written exactly once and equals
   -2 * (sum_left - sum_right) with sum_left the sum of the three left traces. *)
C7_Original ==
    pc \in {"asm_contract", "asm_done"} =>
        /\ WrittenOnce
        /\ \A r \in 1..NPairs : \A a \in Comps :
              Processed(r, a) =>
                 asm.hyperpolarizability[r][a]
                    = RMul(RInt(-2), RSub(ThreeTraces(a, off1[r], off2[r]),
                                          SixTraces(a, off1[r], off2[r])))

(* C7, amended: every entry [r, a] is written exactly once and equals
   -2 * (sum_left - sum_right) with sum_left twice the sum of the three left
   traces and sum_right the sum of the six right traces. *)
C7_EntryFormula ==
    pc \in {"asm_contract", "asm_done"} =>
        /\ WrittenOnce
        /\ \A r \in 1..NPairs : \A a \in Comps :
              asm.hyperpolarizability[r][a]
                 = IF Processed(r, a)
                   THEN RMul(RInt(-2), RSub(RMul(RInt(2), ThreeTraces(a, off1[r], off2[r])),
                                            SixTraces(a, off1[r], off2[r])))
                   ELSE RZero

(* A finished table with an entry whose left traces do not cancel. *)
C7_Witness ==
    /\ pc = "asm_done"
    /\ \E r \in 1..NPairs : \E a \in Comps :
          /\ asm.written[r][a] = 1
          /\ ThreeTraces(a, off1[r], off2[r]) # RZero
          /\ asm.hyperpolarizability[r][a] # RZero

(* The builder's ordering protocol, followed along the log of calls.  left and
   right: the perturbation each registered pair is for; fresh[b]: the
   perturbation whose current response vector buffer b holds (0: none, or
   outdated by an assignment to self.x); valid: compute() has run since the
   last registration, clearing or buffer write. *)
ProtocolStart ==
    [left |-> <<>>, right |-> <<>>, fresh |-> [b \in Comps |-> 0], valid |-> FALSE, ok |-> TRUE]

ProtocolStep(s, e) ==
    CASE e.op = "C_clear" ->
            [s EXCEPT !.left = <<>>, !.right = <<>>, !.valid = FALSE]
      [] e.op = "C_left_add" ->
            [s EXCEPT !.left = Append(@, e.c), !.valid = FALSE,
                      !.ok = @ /\ e.k = Len(s.left) + 1]
      [] e.op = "C_right_add" ->
            [s EXCEPT !.right = Append(@, e.c), !.valid = FALSE,
                      !.ok = @ /\ e.k = Len(s.right) + 1]
      [] e.op = "write" ->
            [s EXCEPT !.fresh[e.k] = e.c, !.valid = FALSE]
      [] e.op = "x" ->
            [s EXCEPT !.fresh = [b \in Comps |-> IF s.fresh[b] = e.c THEN 0 ELSE s.fresh[b]]]
      [] e.op = "compute" ->
            [s EXCEPT !.valid = TRUE,
                      !.ok = /\ @
                             /\ Len(s.left) >= 1 /\ s.left = s.right
                             /\ \A k \in 1..Len(s.right) : s.fresh[k] = s.right[k]]
      [] e.op \in {"J", "K"} ->
            [s EXCEPT !.ok = @ /\ s.valid /\ e.k \in 1..Len(s.right) /\ s.right[e.k] = e.c]

RECURSIVE ProtocolAfter(_, _)
ProtocolAfter(log, n) ==
    IF n = 0 THEN ProtocolStart ELSE ProtocolStep(ProtocolAfter(log, n - 1), log[n])

(* J and K of the current response vector of perturbation c. *)
CurrentJ(c) == Coulomb(scf_wfn, Density(self.Co, RightOf(self.Cv, x[c])))
CurrentK(c) == Exchange(scf_wfn, Density(self.Co, RightOf(self.Cv, x[c])))

(* C8: along every run the calls on the builder follow its protocol: each
   compute() comes after the registration of its pairs and the write of the
   current response vectors into their right buffers, each J/K read comes after
   a compute() that followed the latest write and reads the pair of its own
   perturbation; and the matrices about to be read are those of the current
   response vector of that perturbation. *)
C8_BuilderProtocol ==
    /\ ProtocolAfter(jklog, Len(jklog)).ok
    /\ pc = "iter_amplitudes" =>
          \A k \in Comps : jk.J[k] = CurrentJ(k) /\ jk.K[k] = CurrentK(k)
    /\ pc = "asm_G" => jk.J[1] = CurrentJ(asm.i) /\ jk.K[1] = CurrentK(asm.i)

(* The second pass of the iterative loop is about to read J and K of
   non-zero response vectors. *)
C8_Witness ==
    /\ pc = "iter_amplitudes" /\ CPHF_ITER = 2
    /\ \E k \in Comps : x[k] # Zeros(self.nocc, self.nvir)
    /\ \E k \in Comps : jk.J[k] # Zeros(self.nbf, self.nbf)

(* The iterative solve is in or past its loop. *)
InOrPastLoop ==
    /\ method = "iterative"
    /\ \/ pc \in {"iter_right", "iter_compute", "iter_amplitudes", "iter_check",
                  "form_polarizability", "solved"}
       \/ pc = "raised" /\ error = "jk_failed"

(* The log entries of the given kinds, in order. *)
RECURSIVE OfKinds(_, _, _)
OfKinds(log, n, kinds) ==
    IF n = 0 THEN <<>>
    ELSE IF log[n].op \in kinds THEN Append(OfKinds(log, n - 1, kinds), log[n])
    ELSE OfKinds(log, n - 1, kinds)

(* C9: from the first pass of the loop on, the builder holds exactly the three
   pairs registered before the loop, left block Co and right buffer k for
   perturbation k; the log shows no other registration and no clearing, and
   the only writes are to the three right buffers. *)
C9_PairsFixed ==
    InOrPastLoop =>
        /\ jk.C_left = [k \in Comps |-> self.Co]
        /\ jk.C_right = [k \in Comps |-> k]
        /\ Len(mat) = NComp
        /\ OfKinds(jklog, Len(jklog), {"C_left_add", "C_right_add", "C_clear"})
              = OfKinds(jklog, 2 * NComp, {"C_left_add", "C_right_add"})
        /\ Len(OfKinds(jklog, 2 * NComp, {"C_left_add", "C_right_add"})) = 2 * NComp
        /\ \A n \in 1..Len(jklog) : jklog[n].op = "write" => jklog[n].k \in Comps

(* The second pass has overwritten the right buffers. *)
C9_Witness ==
    /\ method = "iterative" /\ pc = "iter_compute" /\ CPHF_ITER = 2
    /\ \E k \in Comps : mat[k] # Zeros(self.nbf, self.nocc)

InLoop ==
    method = "iterative" /\ pc \in {"iter_right", "iter_compute", "iter_amplitudes", "iter_check"}
IterReturned == method = "iterative" /\ pc \in {"form_polarizability", "solved"}

(* m is the largest squared elementwise difference of new and old over the
   three components. *)
IsMaxSquaredChange(m, new, old) ==
    LET sq(k, i, a) == LET d == RSub(new[k][i][a], old[k][i][a]) IN RMul(d, d)
    IN  /\ \E k \in Comps : \E i \in 1..self.nocc : \E a \in 1..self.nvir : m = sq(k, i, a)
        /\ \A k \in Comps : \A i \in 1..self.nocc : \A a \in 1..self.nvir : ~RLess(m, sq(k, i, a))

(* The counts of the iterative loop: the pass number stays within 1..maxiter,
   there is one compute() per pass, the loop goes on only after a pass that did
   not meet the tolerance, the first pass compares with zero, and the solve
   returns without error either on a pass that met the tolerance or after pass
   maxiter. *)
C10_Counts ==
    /\ InLoop => CPHF_ITER \in 1..maxiter
    /\ (InLoop \/ IterReturned) =>
          ncompute = IF pc \in {"iter_right", "iter_compute"} THEN CPHF_ITER - 1 ELSE CPHF_ITER
    /\ (InLoop /\ CPHF_ITER = 1) => x_old = [k \in Comps |-> Zeros(self.nocc, self.nvir)]
    /\ (InLoop /\ CPHF_ITER > 1) => ~RLess(max_RMS, conv)
    /\ IterReturned =>
          /\ error = "none" /\ CPHF_ITER \in 1..maxiter
          /\ IF converged THEN RLess(max_RMS, conv)
             ELSE CPHF_ITER = maxiter /\ ~RLess(max_RMS, conv)

(* C10: the iterative solve, once entered, ends (returning, or raising when an
   external call fails); it makes between 1 and maxiter passes with one
   compute() each, measures each pass by the largest squared elementwise change
   over the three components, stops at the first pass whose measure is below
   the tolerance and otherwise returns without error after pass maxiter. *)
C10_Terminates ==
    /\ []C10_Counts
    /\ [][pc = "iter_check" => IsMaxSquaredChange(max_RMS', x, x_old)]_vars
    /\ (pc = "iter_jk") ~> (IterReturned \/ pc = "raised")

(* The solve returned after pass maxiter = 2 without meeting the tolerance. *)
C10_Witness ==
    /\ IterReturned /\ ~converged /\ maxiter = 2 /\ CPHF_ITER = 2 /\ ncompute = 2
    /\ error = "none"

====
